---- MODULE Spec2Model ----
(***************************************************************************)
(* AdventureForge: the story document, the editor, the player and the      *)
(* asynchronous expansion of a dead end, as a state machine.               *)
(*                                                                         *)
(* A Story object holds a reference to its nodes object.  { ...story }     *)
(* copies the top-level fields only, so the copy shares the nodes object   *)
(* with the original: `heap` holds the nodes objects and a Story value     *)
(* holds an index into it.  Choice objects are shared between the stored   *)
(* node and the editor's draft (a shallow copy), so every choice object    *)
(* carries an object identity `oid`, which is not part of the JSON value.  *)
(***************************************************************************)
EXTENDS Integers, Sequences, FiniteSets, TLC

VARIABLES
  mode,            \* App.tsx:12      'welcome' | 'playing' | 'editing' | 'visualizing' ("crashed": a render threw)
  story,           \* App.tsx:14      the current Story object
  heap,            \* the nodes objects ever created, by reference
  nextOid,         \* the next free choice-object identity
  pendingImport,   \* App.tsx:15      the parsed candidate awaiting finalizeImport, or Null
  saveError,       \* App.tsx:20
  persisted,       \* localStorage['adventure_forge_story'] as a JSON value, or Null
  selectedNodeId,  \* StoryEditor.tsx:34
  editNode,        \* StoryEditor.tsx:35  the draft, or Null
  filteredNodes,   \* StoryEditor.tsx:62  the ids of the nodes the sidebar lists (useMemo)
  linkedNodeIds,   \* StoryEditor.tsx:73  the ids some choice leads to (useMemo)
  currentNodeId,   \* StoryPlayer.tsx:27
  history,         \* StoryPlayer.tsx:28
  isGenerating,    \* StoryPlayer.tsx:29
  requests,        \* expansion requests in flight: the closures of handleAiGeneration
  now,             \* Date.now()
  downloads,       \* the file handleExport last wrote, as JSON.parse reads it, or Null
  event,           \* the last handler's outcome as the user sees it (alert or commit)
  budget           \* how many more handlers run in this session

vars == <<mode, story, heap, nextOid, pendingImport, saveError, persisted,
          selectedNodeId, editNode, filteredNodes, linkedNodeIds,
          currentNodeId, history, isGenerating, requests, now, downloads, event, budget>>

appVars    == <<mode, story, pendingImport, saveError, persisted>>
docVars    == <<story, saveError, persisted, heap, nextOid>>
memoVars   == <<filteredNodes, linkedNodeIds>>
editorVars == <<selectedNodeId, editNode, memoVars>>
playerVars == <<currentNodeId, history, isGenerating>>

\* ---------------------------------------------------------------- bounds

MaxEditSteps  == 5   \* handlers run in a session of editing and importing
MaxRaceSteps  == 8   \* handlers run in a session with an expansion in flight and the editor beside it
MaxMergeSteps == 9   \* handlers run in a session of play and expansion
MaxLiveSteps == 7    \* handlers the user runs in a session whose generator calls all end
MaxWeaveSteps == 7   \* handlers run in a session of editing interleaved with expansion
MaxSavedSteps == 7   \* handlers run in a session that starts from a saved story
MaxGraphSteps == 6   \* handlers run in a session that ends on the map
MaxKeysSteps == 8    \* handlers run in a session in which every kind of commit takes part

\* every handler spends one step of the session
Spend == budget > 0 /\ budget' = budget - 1

\* what the last handler did, as the user sees it
Ev(t) == [type |-> t]

\* ---------------------------------------------------------------- values

Null      == [null |-> TRUE]          \* JS null
UndefId   == <<"undefined">>          \* JS undefined where a node id is expected
UndefStr  == "undefined"              \* JS undefined where a string is expected
NoMap     == 0                        \* JS undefined where the nodes object is expected

hasApiKey == TRUE

Choice(oid, id, text, target) ==
  [oid |-> oid, id |-> id, text |-> text, targetNodeId |-> target]

Node(id, title, content, choices, ai, img) ==
  [id |-> id, title |-> title, content |-> content, choices |-> choices,
   isAiGenerated |-> ai, imageUrl |-> img]

\* constants.ts: INITIAL_STORY.nodes (texts abbreviated)
InitialNodes ==
  LET n(k) == <<"node", k>> IN
  [k \in {n(1), n(2), n(3), n(4), n(5)} |->
     CASE k = n(1) -> Node(k, "The Entrance", "content-1",
                           << Choice(1, <<"c", 1>>, "Push the gates open", n(2)),
                              Choice(2, <<"c", 2>>, "Examine the glyphs on the wall", n(3)) >>,
                           FALSE, "")
       [] k = n(2) -> Node(k, "The Great Hall", "content-2",
                           << Choice(3, <<"c", 3>>, "Approach the pedestal", n(4)),
                              Choice(4, <<"c", 4>>, "Call out into the darkness", n(5)) >>,
                           FALSE, "")
       [] k = n(3) -> Node(k, "Ancient Knowledge", "content-3", <<>>, FALSE, "")
       [] k = n(4) -> Node(k, "The Chalice", "content-4", <<>>, FALSE, "")
       [] OTHER    -> Node(k, "An Echo Returns", "content-5", <<>>, FALSE, "")]

\* constants.ts: INITIAL_STORY
INITIAL_STORY ==
  [id |-> "default-adventure", name |-> "The Whispering Spire",
   startNodeId |-> <<"node", 1>>, imageStyle |-> "Epic Fantasy digital art",
   nodes |-> 1]

\* Date.now() is far above every number in the seed's ids
ClockStart == 1 + Cardinality(DOMAIN InitialNodes)

\* ---------------------------------------------------------------- JS objects

Has(m, k) == k \in DOMAIN m

\* obj[k] = v
Put(m, k, v) == [x \in (DOMAIN m) \cup {k} |-> IF x = k THEN v ELSE m[x]]

\* delete obj[k]
Delete(m, k) == [x \in (DOMAIN m) \ {k} |-> m[x]]

\* a name every JS object answers to without holding it as a key: obj[k] is
\* Object.prototype's member (one of them stands for all)
ObjectPrototype == {<<"constructor">>}

\* obj[k] as a condition
Truthy(m, k) == Has(m, k) \/ k \in ObjectPrototype

\* the nodes object of a Story object
NodesOf(s, h) == h[s.nodes]


\* ---------------------------------------------------------------- JSON

\* JSON.stringify drops object identity
PlainChoice(c) == [id |-> c.id, text |-> c.text, targetNodeId |-> c.targetNodeId]

PlainNode(n) == [n EXCEPT !.choices = [i \in 1..Len(n.choices) |-> PlainChoice(n.choices[i])]]

PlainNodes(m) == [k \in DOMAIN m |-> PlainNode(m[k])]

\* JSON.stringify(story): the document as a value
Serialize(s, h) ==
  [id |-> s.id, name |-> s.name, startNodeId |-> s.startNodeId,
   imageStyle |-> s.imageStyle, hasNodes |-> s.nodes # NoMap,
   nodes |-> IF s.nodes = NoMap THEN <<>> ELSE PlainNodes(h[s.nodes])]

\* JSON.parse: every choice of the parsed document is a fresh object
FreshChoices(cs, base) ==
  [i \in 1..Len(cs) |-> Choice(base + cs[i].oid, cs[i].id, cs[i].text, cs[i].targetNodeId)]

FreshNodes(m, base) == [k \in DOMAIN m |-> [m[k] EXCEPT !.choices = FreshChoices(@, base)]]

\* ---------------------------------------------------------------- files and generator payloads

\* the nodes of the files the user imports: two scenes, one choice (oid relative)
FileNodes ==
  LET a == <<"node", 1>>
      b == <<"node", 9>> IN
  [k \in {a, b} |->
     IF k = a
       THEN Node(a, "Prologue", "file-1", << Choice(0, <<"c", 1>>, "Go on", b) >>, FALSE, "")
       ELSE Node(b, "Epilogue", "file-9", <<>>, FALSE, "")]

File(name, start, hasNodes) ==
  [id |-> "file-story", name |-> name, startNodeId |-> start,
   imageStyle |-> UndefStr, hasNodes |-> hasNodes,
   nodes |-> IF hasNodes THEN FileNodes ELSE <<>>]

\* what JSON.parse of an imported file or of a generated seed can yield
Candidates ==
  { File("Imported Saga", <<"node", 1>>, TRUE),     \* well formed, the seed's start id
    File("Imported Saga", <<"node", 9>>, TRUE),     \* well formed, another start id
    File("Imported Saga", <<"node", 7>>, TRUE),     \* startNodeId names no node
    File("Imported Saga", UndefId, TRUE),           \* no startNodeId
    File(UndefStr, <<"node", 1>>, TRUE),            \* no name
    File("Imported Saga", <<"node", 1>>, FALSE) }   \* no nodes

\* ---------------------------------------------------------------- images

\* the media of a scene: none, a remote address, an embedded picture
RemoteImage == "https://example.org/spire.png"
PngImage == "data:image/png;base64,iVBORw0KGgo"

\* App.tsx line 79: node.imageUrl && node.imageUrl.startsWith('data:image'),
\* over the addresses above and what resizeBase64Image returns
IsDataImage(u) == u # "" /\ u # RemoteImage

\* geminiService resizeBase64Image: the picture of u drawn on a canvas and
\* encoded anew as JPEG of quality 0.8, whatever its size and format
resizeBase64Image(u) == "data:image/jpeg;base64,q80(" \o u \o ")"

\* App.tsx lines 76-82: the loop over the nodes of the parsed file
Resized(c) ==
  [c EXCEPT !.nodes = [k \in DOMAIN @ |->
      [@[k] EXCEPT !.imageUrl = IF IsDataImage(@) THEN resizeBase64Image(@) ELSE @]]]

\* ---------------------------------------------------------------- saved stories

\* a saved story of three scenes: A leads to B and to C, B leads to C
TriangleNodes ==
  LET a == <<"node", 1>>
      b == <<"node", 2>>
      c == <<"node", 3>> IN
  [k \in {a, b, c} |->
     CASE k = a -> Node(a, "A", "saved-a", << Choice(0, <<"c", 1>>, "To B", b),
                                              Choice(1, <<"c", 2>>, "To C", c) >>, FALSE, "")
       [] k = b -> Node(b, "B", "saved-b", << Choice(2, <<"c", 3>>, "To C", c) >>, FALSE, RemoteImage)
       [] OTHER -> Node(c, "C", "saved-c", <<>>, FALSE, "")]

\* a saved story of two scenes, the first with an embedded picture
IllustratedNodes ==
  LET a == <<"node", 1>>
      b == <<"node", 2>> IN
  [k \in {a, b} |->
     IF k = a
       THEN Node(a, "Frontispiece", "saved-a", << Choice(0, <<"c", 1>>, "Turn the page", b) >>,
                 FALSE, PngImage)
       ELSE Node(b, "Page", "saved-b", <<>>, FALSE, "")]

\* App.tsx line 26: what localStorage holds when the app starts on a saved story
SavedStories ==
  { [id |-> "saved-story", name |-> "Saved Saga", startNodeId |-> <<"node", 1>>,
     imageStyle |-> "Ink", hasNodes |-> TRUE, nodes |-> ns] : ns \in {TriangleNodes, IllustratedNodes} }

\* JSON.parse of an exported text: each choice of the text becomes an object of
\* its own (numbered from base within the file)
RECURSIVE Numbered(_, _, _, _)
Numbered(m, keys, base, acc) ==
  IF keys = {} THEN acc
  ELSE LET k == CHOOSE x \in keys : TRUE
           n == [m[k] EXCEPT !.choices =
                   [i \in 1..Len(@) |-> Choice(base + i - 1, @[i].id, @[i].text, @[i].targetNodeId)]]
       IN Numbered(m, keys \ {k}, base + Len(m[k].choices), Put(acc, k, n))

\* the file a download holds, as a candidate for an import
FileOf(doc) == [doc EXCEPT !.nodes = IF doc.hasNodes THEN Numbered(@, DOMAIN @, 0, <<>>) ELSE @]

\* ---------------------------------------------------------------- generator payloads

\* a choice descriptor of generateNextSteps' result (isNull: the entry is null)
Descriptor(text, desc, target, isNull) ==
  [text |-> text, nodeDescription |-> desc, targetExistingNodeId |-> target, isNull |-> isNull]

NewPlace  == Descriptor("left", "A new place", UndefId, FALSE)     \* a new node
NoDesc    == Descriptor("on", "", UndefId, FALSE)                 \* a new node, no description
Converge  == Descriptor("back", "", <<"node", 2>>, FALSE)         \* an id of the seed
Missing   == Descriptor("lost", "", <<"node", 8>>, FALSE)         \* an id no document holds
NoText    == Descriptor(UndefStr, "A new place", UndefId, FALSE)  \* no text
NullEntry == Descriptor(UndefStr, "", UndefId, TRUE)              \* null
Inherited == Descriptor("fate", "", <<"constructor">>, FALSE)     \* an id that is a name of ObjectPrototype

Result(content, ds) ==
  [raised |-> FALSE, nodeContent |-> content, hasChoices |-> TRUE, choices |-> ds]

\* geminiService generateNextSteps, lines 180-184: the call fails or the text
\* does not parse, and the error is thrown on
Thrown == [raised |-> TRUE, nodeContent |-> "", hasChoices |-> FALSE, choices |-> <<>>]

\* what the await of generateNextSteps can end with; hasChoices = FALSE is the payload {}
Results ==
  { Result("The scene goes on", <<NewPlace>>),
    Result("", <<Converge, NoDesc>>),
    Result("The scene goes on", <<NewPlace, Converge>>),
    Result("", <<Missing>>),
    Result("The scene goes on", <<NoText>>),
    Result("", <<NewPlace, NullEntry>>),
    Result("The scene goes on", <<>>),
    [raised |-> FALSE, nodeContent |-> "", hasChoices |-> FALSE, choices |-> <<>>],
    Thrown }

\* the same, and a result whose descriptor names an id of ObjectPrototype
ResultsAnyId == Results \cup {Result("", <<Inherited, NewPlace>>)}

\* ---------------------------------------------------------------- App

\* a handler that keeps the story it had when the write fails
handleUpdateStoryOrKeep(newStory, h, ok) ==
  /\ story' = IF ok THEN newStory ELSE story
  /\ IF ok
       THEN persisted' = Serialize(newStory, h) /\ saveError' = FALSE
       ELSE persisted' = persisted /\ saveError' = TRUE

\* App.tsx handleUpdateStory: h is the heap after the caller's writes,
\* ok tells whether localStorage.setItem succeeds
handleUpdateStory(newStory, h, ok) ==
  /\ story' = newStory
  /\ IF ok
       THEN persisted' = Serialize(newStory, h) /\ saveError' = FALSE
       ELSE persisted' = persisted /\ saveError' = TRUE

\* a view's state when it is not mounted
NoPlayer == currentNodeId' = UndefId /\ history' = <<>> /\ isGenerating' = FALSE
NoEditor ==
  selectedNodeId' = UndefId /\ editNode' = Null /\ filteredNodes' = {} /\ linkedNodeIds' = {}

\* an editor in which no choice counts as a link
LinkedNone(m) == {}

\* StoryEditor.tsx lines 62-71, with no search term: the nodes the sidebar lists
Listed(m) == {m[k].id : k \in DOMAIN m}

\* StoryEditor.tsx lines 73-79: the ids the choices of the nodes m lead to
Linked(m) == UNION {{m[k].choices[i].targetNodeId : i \in 1..Len(m[k].choices)} : k \in DOMAIN m}

\* useMemo(..., [story.nodes]): computed when the editor renders with a nodes
\* object other than the one of the render before
Memoize(m) == filteredNodes' = Listed(m) /\ linkedNodeIds' = Linked(m)

\* setIsGenerating of an unmounted player has no effect on a later one
Detach(rs) == [i \in 1..Len(rs) |-> [rs[i] EXCEPT !.attached = FALSE]]

\* the render of the view of mode m on story s throws
RenderThrows(m, s) == m \in {"playing", "editing", "visualizing"} /\ s.nodes = NoMap

\* mode becomes m with story s (heap h): the old view unmounts, the new one mounts
Show(m, s, h) ==
  IF RenderThrows(m, s)
    THEN mode' = "crashed" /\ NoPlayer /\ NoEditor /\ requests' = Detach(requests)
    ELSE
      /\ mode' = m
      /\ IF m = "playing"
           THEN /\ currentNodeId' = s.startNodeId
                /\ history' = <<s.startNodeId>>
                /\ isGenerating' = FALSE
           ELSE NoPlayer
      /\ IF m = "editing"
           THEN /\ selectedNodeId' = s.startNodeId
                /\ editNode' = IF Has(h[s.nodes], s.startNodeId)
                                 THEN h[s.nodes][s.startNodeId] ELSE Null
                /\ Memoize(h[s.nodes])
           ELSE NoEditor
      /\ requests' = IF mode = "playing" THEN Detach(requests) ELSE requests

\* the user can act: no modal is open and the app is rendered
UserCan == pendingImport = Null /\ mode # "crashed"

\* App.tsx: the nav buttons, 'Enter the World', the logo, onReset, onExit
SetMode(m) ==
  /\ Spend
  /\ UserCan
  /\ m # mode
  /\ mode = "welcome" => m = "playing"
  /\ Show(m, story, heap)
  /\ event' = Ev("nav")
  /\ UNCHANGED <<docVars, pendingImport, now, downloads>>

\* App.tsx line 172: the close button of the storage warning
DismissSaveError ==
  /\ Spend
  /\ mode # "crashed"
  /\ saveError
  /\ saveError' = FALSE
  /\ event' = Ev("dismiss")
  /\ UNCHANGED <<mode, story, persisted, heap, nextOid, pendingImport, editorVars, playerVars,
                 requests, now, downloads>>

\* ---------------------------------------------------------------- imports and seed generation

Max(S) == CHOOSE x \in S : \A y \in S : y <= x

OidsIn(m) == UNION {{m[k].choices[i].oid : i \in 1..Len(m[k].choices)} : k \in DOMAIN m}

\* the first identity above those of the choice objects of m
OidAfter(m, base) == IF OidsIn(m) = {} THEN base ELSE 1 + Max(OidsIn(m))

\* the Story object and the heap once candidate c is materialised as objects
Parsed(c) ==
  [id |-> c.id, name |-> c.name, startNodeId |-> c.startNodeId, imageStyle |-> c.imageStyle,
   nodes |-> IF c.hasNodes THEN Len(heap) + 1 ELSE NoMap]

HeapWith(c) == IF c.hasNodes THEN Append(heap, FreshNodes(c.nodes, nextOid)) ELSE heap

OidWith(c) == IF c.hasNodes THEN OidAfter(FreshNodes(c.nodes, nextOid), nextOid) ELSE nextOid

\* StoryEditor.tsx handleImportFile, line 242: the shape check
EditorAccepts(c) == c.hasNodes /\ c.startNodeId # UndefId /\ c.name # UndefStr /\ c.name # ""

\* StoryEditor.tsx handleImportFile (reader.onload); parsed = FALSE: JSON.parse throws
EditorImport(parsed, c, ok) ==
  /\ Spend
  /\ UserCan /\ mode = "editing"
  /\ IF parsed /\ EditorAccepts(c)
       THEN LET old == NodesOf(story, heap) IN
            /\ heap' = HeapWith(c)
            /\ nextOid' = OidWith(c)
            /\ handleUpdateStory(Parsed(c), HeapWith(c), ok)
            \* handleSelectNode(importedStory.startNodeId) reads the story of the last render
            /\ IF Has(old, c.startNodeId)
                 THEN /\ selectedNodeId' = c.startNodeId
                      /\ editNode' = old[c.startNodeId]
                      /\ Memoize(HeapWith(c)[Parsed(c).nodes])
                      /\ mode' = mode
                 \* the draft is {}: the render reads editNode.choices.map and throws
                 ELSE mode' = "crashed" /\ NoEditor
            /\ event' = [type |-> "import:ok", candidate |-> c]
            /\ UNCHANGED pendingImport
       ELSE /\ event' = IF parsed THEN [type |-> "import:rejected", candidate |-> c]
                                  ELSE Ev("import:failed")
            /\ UNCHANGED <<appVars, heap, nextOid, editorVars>>
  /\ UNCHANGED <<playerVars, requests, now, downloads>>

\* App.tsx handleImportFile (reader.onload): Object.keys(importedStory.nodes) throws without nodes
AppImport(parsed, c) ==
  /\ Spend
  /\ UserCan /\ mode = "welcome"
  /\ IF parsed /\ c.hasNodes
       THEN pendingImport' = Resized(c) /\ event' = [type |-> "import:pending", candidate |-> c]
       ELSE /\ pendingImport' = pendingImport
            /\ event' = IF parsed THEN [type |-> "import:rejected", candidate |-> c]
                                  ELSE Ev("import:failed")
  /\ UNCHANGED <<mode, docVars, editorVars, playerVars, requests, now, downloads>>

\* App.tsx finalizeImport
finalizeImport(chosenMode, ok) ==
  /\ Spend
  /\ pendingImport # Null /\ mode # "crashed"
  /\ heap' = HeapWith(pendingImport)
  /\ nextOid' = OidWith(pendingImport)
  /\ handleUpdateStory(Parsed(pendingImport), HeapWith(pendingImport), ok)
  /\ Show(chosenMode, Parsed(pendingImport), HeapWith(pendingImport))
  /\ pendingImport' = Null
  /\ event' = [type |-> "import:ok", candidate |-> pendingImport]
  /\ UNCHANGED <<now, downloads>>

\* App.tsx line 141: the modal's close button
CancelImport ==
  /\ Spend
  /\ pendingImport # Null /\ mode # "crashed"
  /\ pendingImport' = Null
  /\ event' = Ev("import:cancelled")
  /\ UNCHANGED <<mode, docVars, editorVars, playerVars, requests, now, downloads>>

\* geminiService generateInitialStory, lines 109-118, on payload c ({} when empty)
SeedOf(c, empty) ==
  [(IF empty THEN File(UndefStr, UndefId, FALSE) ELSE c)
     EXCEPT !.id = "story-" \o ToString(now), !.imageStyle = "Epic Fantasy digital art"]

\* App.tsx handleForgeStory; raised: the call or JSON.parse throws
handleForgeStory(raised, c, empty, ok) ==
  /\ Spend
  /\ UserCan /\ mode = "welcome" /\ hasApiKey
  /\ IF raised
       THEN /\ event' = Ev("forge:failed")
            /\ UNCHANGED <<mode, docVars, editorVars, playerVars, requests>>
       ELSE /\ heap' = HeapWith(SeedOf(c, empty))
            /\ nextOid' = OidWith(SeedOf(c, empty))
            /\ handleUpdateStory(Parsed(SeedOf(c, empty)), HeapWith(SeedOf(c, empty)), ok)
            /\ Show("playing", Parsed(SeedOf(c, empty)), HeapWith(SeedOf(c, empty)))
            /\ event' = [type |-> "forge:ok", candidate |-> SeedOf(c, empty)]
  /\ UNCHANGED <<pendingImport, now, downloads>>

\* ---------------------------------------------------------------- editor

\* a write through a shared choice object: every holder of object oid sees f
Poke(c, field, v) ==
  IF field = "text" THEN [c EXCEPT !.text = v] ELSE [c EXCEPT !.targetNodeId = v]

PokeChoices(cs, oid, field, v) ==
  [i \in 1..Len(cs) |-> IF cs[i].oid = oid THEN Poke(cs[i], field, v) ELSE cs[i]]

PokeHeap(h, oid, field, v) ==
  [r \in 1..Len(h) |->
     [k \in DOMAIN h[r] |-> [h[r][k] EXCEPT !.choices = PokeChoices(@, oid, field, v)]]]

\* StoryEditor.tsx handleSelectNode: the draft is a shallow copy of the stored node
handleSelectNode(id) ==
  /\ Spend
  /\ UserCan /\ mode = "editing"
  /\ IF Has(NodesOf(story, heap), id)
       THEN /\ selectedNodeId' = id
            /\ editNode' = NodesOf(story, heap)[id]
            /\ mode' = mode
            /\ UNCHANGED memoVars
       \* the draft is {}: the render reads editNode.choices.map and throws
       ELSE mode' = "crashed" /\ NoEditor
  /\ event' = Ev("select")
  /\ UNCHANGED <<docVars, pendingImport, playerVars, requests, now, downloads>>

\* StoryEditor.tsx handleExport: JSON.stringify(JSON.parse(JSON.stringify(story))) is downloaded
handleExport ==
  /\ Spend
  /\ UserCan /\ mode = "editing"
  /\ downloads' = Serialize(story, heap)
  /\ event' = Ev("export")
  /\ UNCHANGED <<appVars, heap, nextOid, editorVars, playerVars, requests, now>>

\* StoryEditor.tsx lines 333 and 336: the search box is typed in and cleared;
\* the sidebar list is computed anew from story.nodes
SidebarSearch ==
  /\ Spend
  /\ UserCan /\ mode = "editing"
  /\ filteredNodes' = Listed(NodesOf(story, heap))
  /\ event' = Ev("search")
  /\ UNCHANGED <<appVars, heap, nextOid, selectedNodeId, editNode, linkedNodeIds,
                 playerVars, requests, now, downloads>>

\* StoryEditor.tsx line 342: the nodes the sidebar marks as orphans
Orphans == {id \in filteredNodes : id # story.startNodeId /\ id \notin linkedNodeIds}

DraftTexts == {"edited"}

CanEdit == UserCan /\ mode = "editing" /\ editNode # Null

\* StoryEditor.tsx lines 453-454: the title and content inputs
EditField(field, v) ==
  /\ Spend
  /\ CanEdit
  /\ editNode' = IF field = "title" THEN [editNode EXCEPT !.title = v]
                                    ELSE [editNode EXCEPT !.content = v]
  /\ event' = Ev("draft")
  /\ UNCHANGED <<appVars, heap, nextOid, selectedNodeId, memoVars, playerVars, requests, now, downloads>>

\* StoryEditor.tsx handleAddChoice
handleAddChoice ==
  /\ Spend
  /\ CanEdit
  /\ editNode' = [editNode EXCEPT !.choices =
                    Append(@, Choice(nextOid, <<"choice", now>>, "New Path", story.startNodeId))]
  /\ nextOid' = nextOid + 1
  /\ event' = Ev("draft")
  /\ UNCHANGED <<appVars, heap, selectedNodeId, memoVars, playerVars, requests, now, downloads>>

\* StoryEditor.tsx line 482: the choice's remove button
RemoveChoice(idx) ==
  /\ Spend
  /\ CanEdit
  /\ idx \in 1..Len(editNode.choices)
  /\ editNode' = [editNode EXCEPT !.choices =
                    [i \in 1..(Len(@) - 1) |-> IF i < idx THEN @[i] ELSE @[i + 1]]]
  /\ event' = Ev("draft")
  /\ UNCHANGED <<appVars, heap, nextOid, selectedNodeId, memoVars, playerVars, requests, now, downloads>>

\* StoryEditor.tsx lines 483-487 and 500-504: newChoices[idx].text = ..., newChoices[idx].targetNodeId = ...
\* write through the choice object, which the stored node shares with the draft
EditChoice(idx, field, v) ==
  /\ Spend
  /\ CanEdit
  /\ idx \in 1..Len(editNode.choices)
  /\ field = "targetNodeId" => Has(NodesOf(story, heap), v) /\ v # editNode.choices[idx].targetNodeId
  /\ field = "text" => v \in DraftTexts
  /\ LET oid == editNode.choices[idx].oid
     IN /\ editNode' = [editNode EXCEPT !.choices = PokeChoices(@, oid, field, v)]
        /\ heap' = PokeHeap(heap, oid, field, v)
  /\ event' = Ev("draft")
  /\ UNCHANGED <<appVars, nextOid, selectedNodeId, memoVars, playerVars, requests, now, downloads>>

\* StoryEditor.tsx handleSaveNode: newStory shares story.nodes
handleSaveNode(ok) ==
  /\ Spend
  /\ UserCan /\ mode = "editing"
  /\ editNode # Null
  /\ LET h == [heap EXCEPT ![story.nodes] = Put(@, editNode.id, editNode)] IN
     /\ heap' = h
     /\ handleUpdateStory(story, h, ok)
  /\ event' = Ev("save:ok")
  /\ UNCHANGED <<mode, pendingImport, nextOid, editorVars, playerVars, requests, now, downloads>>

\* a new scene that does not carry its key as id
NewChapterUnnamed(id) == Node(UndefId, "New Chapter", "A new thread begins...", <<>>, FALSE, "")

\* StoryEditor.tsx handleAddNode, lines 104-109
NewChapter(id) == Node(id, "New Chapter", "A new thread begins...", <<>>, FALSE, "")

\* StoryEditor.tsx handleAddNode, line 103
NewNodeId(t) == <<"node", t>>

handleAddNode(ok) ==
  /\ Spend
  /\ UserCan /\ mode = "editing"
  /\ LET newId == NewNodeId(now)
         h == [heap EXCEPT ![story.nodes] = Put(@, newId, NewChapter(newId))] IN
     /\ heap' = h
     /\ handleUpdateStory(story, h, ok)
     /\ selectedNodeId' = newId
     /\ editNode' = h[story.nodes][newId]
  /\ UNCHANGED memoVars
  /\ event' = [type |-> "add:ok", nodes |-> story.nodes, minted |-> {NewNodeId(now)}]
  /\ UNCHANGED <<mode, pendingImport, nextOid, playerVars, requests, now, downloads>>

\* a cascade that leaves the choice lists as they are
PruneNothing(cs, id) == cs

\* choices.filter(c => c.targetNodeId !== id)
Prune(cs, id) == SelectSeq(cs, LAMBDA c : c.targetNodeId # id)

\* StoryEditor.tsx handleDeleteNode, lines 122-126: on the shared nodes object
Cascade(m, id) ==
  LET d == Delete(m, id) IN [k \in DOMAIN d |-> [d[k] EXCEPT !.choices = Prune(@, id)]]

\* a guard that takes no node for the start node
IsOriginNever(id) == FALSE

\* StoryEditor.tsx handleDeleteNode, line 117
IsOrigin(id) == id = story.startNodeId

\* StoryEditor.tsx handleDeleteNode, called with editNode.id; confirmed: the user's answer
handleDeleteNode(confirmed, ok) ==
  /\ Spend
  /\ UserCan /\ mode = "editing"
  /\ editNode # Null
  /\ LET id == editNode.id IN
     IF IsOrigin(id)
       THEN /\ event' = [type |-> "delete:rejected", id |-> id]
            /\ UNCHANGED <<appVars, heap, editorVars>>
       ELSE IF ~confirmed
         THEN /\ event' = [type |-> "delete:cancelled", id |-> id]
              /\ UNCHANGED <<appVars, heap, editorVars>>
         ELSE LET h == [heap EXCEPT ![story.nodes] = Cascade(@, id)] IN
              /\ heap' = h
              /\ handleUpdateStory(story, h, ok)
              \* handleSelectNode(story.startNodeId)
              /\ IF Has(h[story.nodes], story.startNodeId)
                   THEN /\ selectedNodeId' = story.startNodeId
                        /\ editNode' = h[story.nodes][story.startNodeId]
                        /\ mode' = mode
                        /\ UNCHANGED memoVars
                   \* the draft is {}: the render reads editNode.choices.map and throws
                   ELSE mode' = "crashed" /\ NoEditor
              /\ event' = [type |-> "delete:ok", id |-> id]
              /\ UNCHANGED pendingImport
  /\ UNCHANGED <<nextOid, playerVars, requests, now, downloads>>

\* StoryEditor.tsx line 320: the story-name input
Rename(name, ok) ==
  /\ Spend
  /\ UserCan /\ mode = "editing"
  /\ handleUpdateStory([story EXCEPT !.name = name], heap, ok)
  /\ event' = Ev("rename")
  /\ UNCHANGED <<mode, pendingImport, heap, nextOid, editorVars, playerVars, requests, now, downloads>>

\* ---------------------------------------------------------------- player

\* StoryPlayer.tsx line 45
currentNode == IF story.nodes # NoMap /\ Has(NodesOf(story, heap), currentNodeId)
                 THEN NodesOf(story, heap)[currentNodeId] ELSE Null

\* StoryPlayer.tsx line 205: nothing is rendered without a current node
PlayerCan == UserCan /\ mode = "playing" /\ currentNode # Null

\* a handler that moves without recording the move
handleChoiceUnrecorded(idx) ==
  /\ Spend
  /\ PlayerCan
  /\ idx \in 1..Len(currentNode.choices)
  /\ currentNodeId' = currentNode.choices[idx].targetNodeId
  /\ event' = Ev("advance")
  /\ UNCHANGED <<appVars, heap, nextOid, editorVars, history, isGenerating, requests, now, downloads>>

\* StoryPlayer.tsx handleChoice, on the idx-th choice button. On a target
\* that is a name of ObjectPrototype, story.nodes[currentNodeId] is no node and
\* the next render throws at currentNode.content.replace (line 350).
handleChoice(idx) ==
  /\ Spend
  /\ PlayerCan
  /\ idx \in 1..Len(currentNode.choices)
  /\ currentNodeId' = currentNode.choices[idx].targetNodeId
  /\ history' = Append(history, currentNode.choices[idx].targetNodeId)
  /\ IF currentNode.choices[idx].targetNodeId \in ObjectPrototype
       THEN mode' = "crashed" /\ isGenerating' = FALSE /\ requests' = Detach(requests)
       ELSE UNCHANGED <<mode, isGenerating, requests>>
  /\ event' = Ev("advance")
  /\ UNCHANGED <<docVars, pendingImport, editorVars, now, downloads>>

\* a handler without the early return: pop() empties the list and the last
\* element of an empty list is undefined
handleStepBackUnguarded ==
  /\ Spend
  /\ PlayerCan
  /\ currentNodeId' = IF Len(history) > 1 THEN history[Len(history) - 1] ELSE UndefId
  /\ history' = IF Len(history) > 1 THEN SubSeq(history, 1, Len(history) - 1) ELSE <<>>
  /\ event' = Ev("stepback")
  /\ UNCHANGED <<appVars, heap, nextOid, editorVars, isGenerating, requests, now, downloads>>

\* StoryPlayer.tsx handleStepBack (the button shows when history.length > 1)
handleStepBack ==
  /\ Spend
  /\ PlayerCan
  /\ Len(history) > 1
  /\ currentNodeId' = history[Len(history) - 1]
  /\ history' = SubSeq(history, 1, Len(history) - 1)
  /\ event' = Ev("stepback")
  /\ UNCHANGED <<appVars, heap, nextOid, editorVars, isGenerating, requests, now, downloads>>

\* StoryPlayer.tsx line 383: confirm("Restart?") && setCurrentNodeId(story.startNodeId)
Restart ==
  /\ Spend
  /\ PlayerCan
  /\ currentNodeId' = story.startNodeId
  /\ event' = Ev("restart")
  /\ UNCHANGED <<appVars, heap, nextOid, editorVars, history, isGenerating, requests, now, downloads>>

\* ---------------------------------------------------------------- expansion

\* StoryPlayer.tsx handleAiGeneration, lines 153-162: up to the await.
\* The closure keeps story, currentNodeId and currentNode of this render.
Explore ==
  /\ Spend
  /\ PlayerCan /\ hasApiKey
  /\ Len(currentNode.choices) = 0
  /\ ~isGenerating
  /\ IF \A i \in 1..Len(history) : Has(NodesOf(story, heap), history[i])
       THEN /\ requests' = Append(requests,
                 [story |-> story, currentNodeId |-> currentNodeId,
                  currentNode |-> currentNode, attached |-> TRUE])
            /\ isGenerating' = TRUE
            /\ event' = Ev("expand:requested")
       \* story.nodes[id].title throws inside the try: alert, finally
       ELSE /\ event' = Ev("expand:unsent")
            /\ UNCHANGED <<requests, isGenerating>>
  /\ UNCHANGED <<appVars, heap, nextOid, editorVars, currentNodeId, history, now, downloads>>

\* StoryPlayer.tsx line 166: c.targetExistingNodeId && newStory.nodes[c.targetExistingNodeId]
Converges(m, c) == c.targetExistingNodeId # UndefId /\ Truthy(m, c.targetExistingNodeId)

\* StoryPlayer.tsx line 174
AiNodeId(t, idx) == <<"ai-node", t, idx>>

\* StoryPlayer.tsx lines 175-181
AiNode(id, c) ==
  Node(id, "The Path of " \o c.text,
       IF c.nodeDescription = "" THEN "The story unfolds..." ELSE c.nodeDescription,
       <<>>, TRUE, "")

\* StoryPlayer.tsx lines 165-187: result.choices.map over the descriptors from
\* the idx-th on; m is the shared nodes object so far, acc the choices built so
\* far, ids the node ids assigned so far
RECURSIVE MapChoices(_, _, _, _, _, _, _)
MapChoices(m, ds, idx, t, oid, acc, ids) ==
  IF idx > Len(ds) THEN [nodes |-> m, choices |-> acc, minted |-> ids, threw |-> FALSE]
  ELSE
    LET c == ds[idx]
        newId == AiNodeId(t, idx - 1) IN
    \* c.targetExistingNodeId of null throws
    IF c.isNull THEN [nodes |-> m, choices |-> acc, minted |-> ids, threw |-> TRUE]
    ELSE IF Converges(m, c)
      THEN MapChoices(m, ds, idx + 1, t, oid,
             Append(acc, Choice(oid + idx, <<"ai-link", t, idx - 1>>, c.text, c.targetExistingNodeId)),
             ids)
      ELSE MapChoices(Put(m, newId, AiNode(newId, c)), ds, idx + 1, t, oid,
             Append(acc, Choice(oid + idx, <<"ai-choice", t, idx - 1>>, c.text, newId)),
             ids \cup {newId})

\* a write-back that lists the new choices last to first
ExpandedReversed(node, result, choices) ==
  [node EXCEPT !.content = IF result.nodeContent = "" THEN node.content ELSE result.nodeContent,
               !.choices = [i \in 1..Len(choices) |-> choices[Len(choices) + 1 - i]]]

\* a write-back that builds the node anew, without the provenance of the old one
ExpandedUnmarked(node, result, choices) ==
  [node EXCEPT !.content = IF result.nodeContent = "" THEN node.content ELSE result.nodeContent,
               !.choices = choices, !.isAiGenerated = FALSE]

\* StoryPlayer.tsx lines 189-193: the expanded node as written back
Expanded(node, result, choices) ==
  [node EXCEPT !.content = IF result.nodeContent = "" THEN node.content ELSE result.nodeContent,
               !.choices = choices]

\* a handler that carries on with whatever the await ended with
ThrowsNever(result) == FALSE

\* StoryPlayer.tsx lines 162-165: the await throws, or result.choices.map does
\* because the payload has no choices
Throws(result) == result.raised \/ ~result.hasChoices

\* a merge into the node the player stands on when the result arrives
MergeKeyOfCursor(r) == currentNodeId

\* StoryPlayer.tsx lines 163 and 189: the nodes object the merge writes to, and the key
MergeTarget(r) == r.story.nodes
MergeKey(r) == r.currentNodeId

\* StoryPlayer.tsx lines 163 and 195: the Story object the merge commits
MergeStory(r) == r.story

\* a request leaves the list
Without(rs, i) == [j \in 1..(Len(rs) - 1) |-> IF j < i THEN rs[j] ELSE rs[j + 1]]

\* a handler without the finally block
FinallyKeeps(r) == isGenerating' = isGenerating

\* setIsGenerating(false) in the finally block
Finally(r) == isGenerating' = IF r.attached THEN FALSE ELSE isGenerating

\* StoryPlayer.tsx handleAiGeneration, lines 162-200: from the await on
Completion(i, result, ok) ==
  /\ mode # "crashed"
  /\ i \in 1..Len(requests)
  /\ LET r == requests[i]
         ref == MergeTarget(r)
         built == MapChoices(heap[ref], result.choices, 1, now, nextOid - 1, <<>>, {})
         merged == Put(built.nodes, MergeKey(r), Expanded(r.currentNode, result, built.choices))
         \* replaced: the node stored under the key when the await resumes
         done(t) == [type |-> t, request |-> r, result |-> result, at |-> now,
                     nodes |-> ref, minted |-> built.minted,
                     replaced |-> IF Has(heap[ref], MergeKey(r)) THEN heap[ref][MergeKey(r)] ELSE Null]
     IN
     /\ requests' = Without(requests, i)
     /\ Finally(r)
     /\ IF Throws(result)
          THEN /\ event' = done("expand:failed")
               /\ UNCHANGED docVars
          ELSE IF built.threw
            \* the nodes minted before the throw stay in the shared nodes object
            THEN /\ heap' = [heap EXCEPT ![ref] = built.nodes]
                 /\ nextOid' = nextOid + Len(result.choices)
                 /\ event' = done("expand:failed")
                 /\ UNCHANGED <<story, saveError, persisted>>
            ELSE /\ heap' = [heap EXCEPT ![ref] = merged]
                 /\ nextOid' = nextOid + Len(result.choices)
                 /\ handleUpdateStory(MergeStory(r), [heap EXCEPT ![ref] = merged], ok)
                 /\ event' = done("expand:merged")
  /\ UNCHANGED <<mode, pendingImport, editorVars, currentNodeId, history, now, downloads>>

\* the completion as one of the handlers a session counts
Complete(i, result, ok) == Spend /\ Completion(i, result, ok)

\* ---------------------------------------------------------------- clock

Tick ==
  /\ Spend
  /\ now' = now + 1
  /\ event' = Ev("tick")
  /\ UNCHANGED <<appVars, heap, nextOid, editorVars, playerVars, requests, downloads>>

\* ---------------------------------------------------------------- specifications

\* App.tsx lines 12-20: the state after construction, before any handler ran
Start ==
  /\ mode = "welcome"
  /\ story = INITIAL_STORY
  /\ heap = <<InitialNodes>>
  /\ nextOid = OidAfter(InitialNodes, 1)
  /\ pendingImport = Null
  /\ saveError = FALSE
  /\ persisted = Null
  /\ selectedNodeId = UndefId
  /\ editNode = Null
  /\ filteredNodes = {}
  /\ linkedNodeIds = {}
  /\ downloads = Null
  /\ currentNodeId = UndefId
  /\ history = <<>>
  /\ isGenerating = FALSE
  /\ requests = <<>>
  /\ now = ClockStart
  /\ event = Ev("start")

\* App.tsx lines 25-34: the state once the mount effect has loaded the saved story s
StartSaved(s) ==
  /\ mode = "welcome"
  /\ story = [id |-> s.id, name |-> s.name, startNodeId |-> s.startNodeId,
              imageStyle |-> s.imageStyle, nodes |-> 1]
  /\ heap = <<FreshNodes(s.nodes, 1)>>
  /\ nextOid = OidAfter(FreshNodes(s.nodes, 1), 1)
  /\ pendingImport = Null
  /\ saveError = FALSE
  /\ persisted = Serialize(story, heap)
  /\ selectedNodeId = UndefId
  /\ editNode = Null
  /\ filteredNodes = {}
  /\ linkedNodeIds = {}
  /\ downloads = Null
  /\ currentNodeId = UndefId
  /\ history = <<>>
  /\ isGenerating = FALSE
  /\ requests = <<>>
  /\ now = ClockStart
  /\ event = Ev("start")

Modes == {"welcome", "playing", "editing", "visualizing"}

\* the ids of the document's nodes: Object.values(story.nodes)
ListedIds == IF story.nodes = NoMap THEN {} ELSE DOMAIN NodesOf(story, heap)

\* StoryEditor.tsx lines 349 and 467: the buttons that select a node, in the
\* sidebar and under 'Paths Leading Here'
Selectable ==
  filteredNodes \cup {k \in ListedIds : \E i \in 1..Len(NodesOf(story, heap)[k].choices) :
                                           NodesOf(story, heap)[k].choices[i].targetNodeId = selectedNodeId}

DraftIdx == IF editNode = Null THEN {} ELSE 1..Len(editNode.choices)

ChoiceIdx == IF currentNode = Null THEN {} ELSE 1..Len(currentNode.choices)

\* the files the user exported in this session
Exported == IF downloads = Null THEN {} ELSE {FileOf(downloads)}

\* a session of editing, importing and seed generation
Init == Start /\ budget = MaxEditSteps

Next ==
  \/ \E m \in Modes : SetMode(m)
  \/ \E parsed \in BOOLEAN, c \in Candidates, ok \in BOOLEAN : EditorImport(parsed, c, ok)
  \/ \E parsed \in BOOLEAN, c \in Candidates : AppImport(parsed, c)
  \/ \E m \in {"playing", "editing"}, ok \in BOOLEAN : finalizeImport(m, ok)
  \/ CancelImport
  \/ \E raised \in BOOLEAN, c \in Candidates, empty \in BOOLEAN, ok \in BOOLEAN :
        handleForgeStory(raised, c, empty, ok)
  \/ \E id \in Selectable : handleSelectNode(id)
  \/ \E field \in {"title", "content"}, v \in DraftTexts : EditField(field, v)
  \/ handleAddChoice
  \/ \E idx \in DraftIdx : RemoveChoice(idx)
  \/ \E idx \in DraftIdx, v \in DraftTexts : EditChoice(idx, "text", v)
  \/ \E idx \in DraftIdx, v \in ListedIds : EditChoice(idx, "targetNodeId", v)
  \/ \E ok \in BOOLEAN : handleSaveNode(ok)
  \/ \E ok \in BOOLEAN : handleAddNode(ok)
  \/ \E confirmed \in BOOLEAN, ok \in BOOLEAN : handleDeleteNode(confirmed, ok)
  \/ \E name \in {"Renamed"}, ok \in BOOLEAN : Rename(name, ok)
  \/ SidebarSearch
  \/ DismissSaveError
  \/ Tick

Spec == Init /\ [][Next]_vars

\* a session of play with an expansion in flight and the editor beside it
InitRace == Start /\ budget = MaxRaceSteps

NextRace ==
  \/ \E m \in Modes : SetMode(m)
  \/ \E idx \in ChoiceIdx : handleChoice(idx)
  \/ Explore
  \/ \E i \in 1..Len(requests), result \in Results, ok \in BOOLEAN : Complete(i, result, ok)
  \/ \E id \in Selectable : handleSelectNode(id)
  \/ \E confirmed \in BOOLEAN, ok \in BOOLEAN : handleDeleteNode(confirmed, ok)
  \/ \E name \in {"Renamed"}, ok \in BOOLEAN : Rename(name, ok)
  \/ \E parsed \in BOOLEAN, c \in Candidates, ok \in BOOLEAN : EditorImport(parsed, c, ok)
  \/ \E field \in {"title", "content"}, v \in DraftTexts : EditField(field, v)
  \/ \E ok \in BOOLEAN : handleSaveNode(ok)
  \/ Tick

SpecRace == InitRace /\ [][NextRace]_vars

\* a session of play and expansion
InitMerge == Start /\ budget = MaxMergeSteps

NextMerge ==
  \/ \E m \in Modes : SetMode(m)
  \/ \E idx \in ChoiceIdx : handleChoice(idx)
  \/ handleStepBack
  \/ Restart
  \/ Explore
  \/ \E i \in 1..Len(requests), result \in Results, ok \in BOOLEAN : Complete(i, result, ok)
  \/ Tick

SpecMerge == InitMerge /\ [][NextMerge]_vars

\* a session on a saved story: editing, deleting, export and import of the export
InitSaved == (\E s \in SavedStories : StartSaved(s)) /\ budget = MaxSavedSteps

NextSaved ==
  \/ \E m \in Modes : SetMode(m)
  \/ \E id \in Selectable : handleSelectNode(id)
  \/ \E confirmed \in BOOLEAN, ok \in BOOLEAN : handleDeleteNode(confirmed, ok)
  \/ SidebarSearch
  \/ handleExport
  \/ \E c \in Exported, ok \in BOOLEAN : EditorImport(TRUE, c, ok)
  \/ \E c \in Exported : AppImport(TRUE, c)
  \/ \E m \in {"playing", "editing"}, ok \in BOOLEAN : finalizeImport(m, ok)

SpecSaved == InitSaved /\ [][NextSaved]_vars

\* a session of play in which every generator call returns or raises: the
\* user's handlers are counted, the completions are not, and a completion that
\* stays possible happens
InitLive == Start /\ budget = MaxLiveSteps

Settle(i, result, ok) == Completion(i, result, ok) /\ UNCHANGED budget

Settles == \E i \in 1..Len(requests), result \in Results, ok \in BOOLEAN : Settle(i, result, ok)

NextLive ==
  \/ \E m \in Modes : SetMode(m)
  \/ \E idx \in ChoiceIdx : handleChoice(idx)
  \/ handleStepBack
  \/ Restart
  \/ Explore
  \/ Settles

SpecLive == InitLive /\ [][NextLive]_vars /\ WF_vars(Settles)

\* a session of editing (create, choices, save, delete) interleaved with play
\* and expansion, without imports and with a store that takes every write
InitWeave == Start /\ budget = MaxWeaveSteps

NextWeave ==
  \/ \E m \in Modes : SetMode(m)
  \/ \E idx \in ChoiceIdx : handleChoice(idx)
  \/ Explore
  \/ \E i \in 1..Len(requests), result \in ResultsAnyId : Complete(i, result, TRUE)
  \/ \E id \in Selectable : handleSelectNode(id)
  \/ handleAddChoice
  \/ \E idx \in DraftIdx : RemoveChoice(idx)
  \/ \E idx \in DraftIdx, v \in ListedIds : EditChoice(idx, "targetNodeId", v)
  \/ handleSaveNode(TRUE)
  \/ handleAddNode(TRUE)
  \/ \E confirmed \in BOOLEAN : handleDeleteNode(confirmed, TRUE)

SpecWeave == InitWeave /\ [][NextWeave]_vars

\* a session in which every kind of commit takes part: save, create, delete,
\* expansion merge and editor import, with a store that takes every write
InitKeys == Start /\ budget = MaxKeysSteps

NextKeys ==
  \/ \E m \in Modes : SetMode(m)
  \/ \E idx \in ChoiceIdx : handleChoice(idx)
  \/ Explore
  \/ \E i \in 1..Len(requests), result \in Results : Complete(i, result, TRUE)
  \/ \E id \in Selectable : handleSelectNode(id)
  \/ \E v \in DraftTexts : EditField("title", v)
  \/ handleSaveNode(TRUE)
  \/ handleAddNode(TRUE)
  \/ handleDeleteNode(TRUE, TRUE)
  \/ \E c \in Candidates : EditorImport(TRUE, c, TRUE)

SpecKeys == InitKeys /\ [][NextKeys]_vars

\* ---------------------------------------------------------------- visualizer

\* a file whose node ids are slugs, as a generated or hand-written story has
\* them: 'door', 'the-hall', 'door-the', 'hall' (an id is the list of its
\* parts between the '-' characters)
SlugWords == {"the", "hall", "door"}

SlugNodes ==
  LET door    == <<"door">>
      theHall == <<"the", "hall">>
      doorThe == <<"door", "the">>
      hall    == <<"hall">> IN
  [k \in {door, theHall, doorThe, hall} |->
     CASE k = door    -> Node(k, "Door", "slug-1", << Choice(0, <<"c", 1>>, "Enter", theHall) >>, FALSE, "")
       [] k = doorThe -> Node(k, "Threshold", "slug-2", << Choice(1, <<"c", 1>>, "Step in", hall) >>, FALSE, "")
       [] k = theHall -> Node(k, "The Hall", "slug-3", << Choice(2, <<"c", 1>>, "Leave", door) >>, FALSE, "")
       [] OTHER       -> Node(k, "Hall", "slug-4", <<>>, FALSE, "")]

GraphFiles ==
  { [id |-> "slug-story", name |-> "Slug Saga", startNodeId |-> <<"door">>,
     imageStyle |-> UndefStr, hasNodes |-> TRUE, nodes |-> SlugNodes] }

\* the UTF-16 code units of the words the ids are made of
Utf16Word(w) ==
  CASE w = "node"        -> <<110, 111, 100, 101>>
    [] w = "ai-node"     -> <<97, 105, 45, 110, 111, 100, 101>>
    [] w = "constructor" -> <<99, 111, 110, 115, 116, 114, 117, 99, 116, 111, 114>>
    [] w = "undefined"   -> <<117, 110, 100, 101, 102, 105, 110, 101, 100>>
    [] w = "the"         -> <<116, 104, 101>>
    [] w = "hall"        -> <<104, 97, 108, 108>>
    [] w = "door"        -> <<100, 111, 111, 114>>

\* the code units of a number written in decimal
RECURSIVE Digits(_)
Digits(n) == IF n < 10 THEN <<48 + n>> ELSE Digits(n \div 10) \o <<48 + (n % 10)>>

\* Array.prototype.join('-') over code units
RECURSIVE Join(_)
Join(parts) ==
  IF Len(parts) = 1 THEN parts[1] ELSE parts[1] \o <<45>> \o Join(Tail(parts))

\* the string an id is: a slug is words joined by '-', every other id a word
\* followed by numbers ('node-1', 'ai-node-6-0')
Utf16(id) ==
  IF id[1] \in SlugWords
    THEN Join([i \in 1..Len(id) |-> Utf16Word(id[i])])
    ELSE Join([i \in 1..Len(id) |-> IF i = 1 THEN Utf16Word(id[i]) ELSE Digits(id[i])])

\* the order of Array.prototype.sort without a comparator: by code units
RECURSIVE Before(_, _)
Before(s, t) ==
  IF s = <<>> THEN TRUE
  ELSE IF t = <<>> THEN FALSE
  ELSE IF s[1] # t[1] THEN s[1] < t[1]
  ELSE Before(Tail(s), Tail(t))

\* StoryVisualizer.tsx line 50: [link.source, link.target].sort().join('-')
LinkKey(source, target) ==
  IF Before(Utf16(source), Utf16(target)) THEN Join(<<Utf16(source), Utf16(target)>>)
                                          ELSE Join(<<Utf16(target), Utf16(source)>>)

\* Object.values(story.nodes): the ids of S one after the other (the nodes
\* objects of the model do not record the order of insertion; the order taken
\* here decides only which member of a group gets which index)
RECURSIVE ValuesOrder(_)
ValuesOrder(S) ==
  IF S = {} THEN <<>>
  ELSE LET x == CHOOSE x \in S : \A y \in S : Before(Utf16(x), Utf16(y))
       IN <<x>> \o ValuesOrder(S \ {x})

\* StoryVisualizer.tsx lines 37-46: one link per choice, node by node
RECURSIVE LinksOf(_, _)
LinksOf(m, ids) ==
  IF ids = <<>> THEN <<>>
  ELSE [i \in 1..Len(m[ids[1]].choices) |->
          [source |-> m[ids[1]].id, target |-> m[ids[1]].choices[i].targetNodeId,
           label |-> m[ids[1]].choices[i].text]]
       \o LinksOf(m, Tail(ids))

\* StoryVisualizer.tsx lines 48-58: indexInGroup is the length of the link's
\* group when the link is pushed, totalInGroup the length of the group at the end
Grouped(links) ==
  [i \in 1..Len(links) |->
     [source |-> links[i].source, target |-> links[i].target, label |-> links[i].label,
      indexInGroup |-> Cardinality({j \in 1..(i - 1) :
          LinkKey(links[j].source, links[j].target) = LinkKey(links[i].source, links[i].target)}),
      totalInGroup |-> Cardinality({j \in 1..Len(links) :
          LinkKey(links[j].source, links[j].target) = LinkKey(links[i].source, links[i].target)})]]

\* StoryVisualizer.tsx graphData.links, of the document on screen
graphData ==
  IF story.nodes = NoMap THEN <<>>
  ELSE Grouped(LinksOf(NodesOf(story, heap), ValuesOrder(DOMAIN NodesOf(story, heap))))

\* StoryVisualizer.tsx lines 147-163: the path drawn for link d
PathOf(d) ==
  IF d.totalInGroup > 1 THEN "curve"
  ELSE IF d.source = d.target THEN "loop"
  ELSE "line"

\* a session that ends on the map: the seed story or an imported one, and the
\* editor's choice destinations
InitGraph == Start /\ budget = MaxGraphSteps

NextGraph ==
  \/ \E m \in Modes : SetMode(m)
  \/ \E c \in GraphFiles : AppImport(TRUE, c)
  \/ \E m \in {"playing", "editing"} : finalizeImport(m, TRUE)
  \/ \E id \in Selectable : handleSelectNode(id)
  \/ handleAddChoice
  \/ \E idx \in DraftIdx, v \in ListedIds : EditChoice(idx, "targetNodeId", v)
  \/ handleSaveNode(TRUE)

SpecGraph == InitGraph /\ [][NextGraph]_vars

\* ---------------------------------------------------------------- properties

\* the document: the Story object, its nodes object, and what localStorage holds
DocumentUnchanged == story' = story /\ heap' = heap /\ persisted' = persisted

\* the nodes of the current document
Nodes == IF story.nodes = NoMap THEN <<>> ELSE NodesOf(story, heap)

\* some choice of the nodes m leads to id
Targeted(m, id) ==
  \E k \in DOMAIN m : \E i \in 1..Len(m[k].choices) : m[k].choices[i].targetNodeId = id

\* C1: a delete request for the node whose id is startNodeId is rejected, and
\* the node map, every choice list, startNodeId and the name stay as they were.
StartNodePermanence ==
  [][ (event'.type \in {"delete:rejected", "delete:cancelled", "delete:ok"}
         /\ event'.id = story.startNodeId)
      => (event'.type = "delete:rejected" /\ DocumentUnchanged) ]_vars

\* the editor refused to delete the seed's start node
StartDeleteRefused ==
  /\ event.type = "delete:rejected"
  /\ event.id = story.startNodeId
  /\ Has(Nodes, story.startNodeId)

\* C2: once the deletion of a node X other than the start node is committed,
\* X is no key of nodes and no choice of a remaining node leads to X.
CascadeIntegrity ==
  event.type = "delete:ok" => ~Has(Nodes, event.id) /\ ~Targeted(Nodes, event.id)

\* The Great Hall was deleted and The Entrance lost its choice leading there
HallDeleted ==
  /\ event.type = "delete:ok"
  /\ event.id = <<"node", 2>>
  /\ story.id = INITIAL_STORY.id
  /\ Len(Nodes[<<"node", 1>>].choices) = 1

\* C3: when the node under expansion was deleted from the document while the
\* request was in flight, the completion leaves the document as it was: the
\* node is no key of nodes, no node is created, nothing is committed.
DeletedTargetStaysDeleted ==
  [][ (event'.type \in {"expand:merged", "expand:failed"}
         /\ event'.request.story.nodes = story.nodes
         /\ ~Has(Nodes, event'.request.currentNodeId))
      => (DocumentUnchanged /\ ~Has(NodesOf(story', heap'), event'.request.currentNodeId)) ]_vars

\* C4: the merge commits the document of completion time with the merge
\* applied: the name, the id, the start node and every node other than the
\* expanded one are those of the document just before completion.
MergeKeepsInterimChanges ==
  [][ event'.type = "expand:merged"
      => /\ story'.name = story.name
         /\ story'.id = story.id
         /\ story'.startNodeId = story.startNodeId
         /\ \A k \in (DOMAIN Nodes) \ {event'.request.currentNodeId} :
              /\ Has(NodesOf(story', heap'), k)
              /\ NodesOf(story', heap')[k] = Nodes[k] ]_vars

\* C5: startNodeId is a key of nodes in every document the application holds,
\* whatever was saved, created, deleted, imported or generated.
StartNodeListed == story.nodes # NoMap /\ Has(Nodes, story.startNodeId)

\* a candidate has the three required top-level fields
Shaped(c) == c.hasNodes /\ c.startNodeId # UndefId /\ c.name # UndefStr

\* C6: an import of a candidate without startNodeId, nodes or name is rejected
\* and leaves the document unchanged, from the editor and from the welcome
\* screen alike.
ImportAtomicity ==
  [][ (event'.type \in {"import:ok", "import:rejected"} /\ ~Shaped(event'.candidate))
      => (event'.type = "import:rejected" /\ DocumentUnchanged) ]_vars

\* C7: a node id assigned by Add Scene or by a merge is no key of the nodes
\* it is added to, whatever the clock reads.
FreshNodeIds ==
  [][ event'.type \in {"add:ok", "expand:merged"}
      => event'.minted \cap DOMAIN heap[event'.nodes] = {} ]_vars

\* C8: in a merge, a descriptor naming a key of nodes yields a choice leading
\* there and no node; every other descriptor yields one new node with no
\* choices and isAiGenerated, and a choice leading to it; the merge adds as
\* many nodes as there are descriptors of the second kind.
ConvergeOrDiverge ==
  [][ event'.type = "expand:merged"
      => LET r == event'.request
             ds == event'.result.choices
             before == heap[r.story.nodes]
             after == heap'[r.story.nodes]
             made == after[r.currentNodeId].choices
             diverging == {i \in 1..Len(ds) : ~Has(before, ds[i].targetExistingNodeId)}
         IN /\ Len(made) = Len(ds)
            /\ \A i \in (1..Len(ds)) \ diverging :
                 made[i].targetNodeId = ds[i].targetExistingNodeId
            /\ \A i \in diverging :
                 /\ ~Has(before, made[i].targetNodeId)
                 /\ Has(after, made[i].targetNodeId)
                 /\ after[made[i].targetNodeId].choices = <<>>
                 /\ after[made[i].targetNodeId].isAiGenerated
            /\ Cardinality((DOMAIN after) \ ((DOMAIN before) \cup {r.currentNodeId}))
                 = Cardinality(diverging) ]_vars

\* the choices of node n were written by a merge
WasExpanded(n) ==
  /\ Len(n.choices) > 0
  /\ \A i \in 1..Len(n.choices) : n.choices[i].id[1] \in {"ai-link", "ai-choice"}

\* C9: a merge on a node that a merge has expanded before leaves the node with
\* the choices of the second result, in the result's order, and none of the
\* first merge's choice objects; the nodes the first merge minted stay keys.
ExpansionOverwrite ==
  [][ (event'.type = "expand:merged"
         /\ Has(heap[event'.nodes], event'.request.currentNodeId)
         /\ WasExpanded(heap[event'.nodes][event'.request.currentNodeId]))
      => LET ds == event'.result.choices
             before == heap[event'.nodes]
             after == heap'[event'.nodes]
             old == before[event'.request.currentNodeId].choices
             made == after[event'.request.currentNodeId].choices
         IN /\ Len(made) = Len(ds)
            /\ \A i \in 1..Len(ds) :
                 /\ made[i].text = ds[i].text
                 /\ made[i].id[2] = event'.at /\ made[i].id[3] = i - 1
                 /\ made[i].targetNodeId =
                      IF Has(before, ds[i].targetExistingNodeId)
                        THEN ds[i].targetExistingNodeId ELSE <<"ai-node", event'.at, i - 1>>
                 /\ \A j \in 1..Len(old) : made[i].oid # old[j].oid
            /\ \A j \in 1..Len(old) :
                 old[j].id[1] = "ai-choice" => Has(after, old[j].targetNodeId) ]_vars

\* a merge replaced a node that an earlier merge had expanded, and a node the
\* earlier merge minted is still there with no choice leading to it
FirstMergeOrphaned ==
  /\ event.type = "expand:merged"
  /\ event.replaced # Null
  /\ WasExpanded(event.replaced)
  /\ \E i \in 1..Len(event.replaced.choices) :
       /\ event.replaced.choices[i].id[1] = "ai-choice"
       /\ Has(Nodes, event.replaced.choices[i].targetNodeId)
       /\ ~Targeted(Nodes, event.replaced.choices[i].targetNodeId)

\* C10: when the generator call raises or its text does not parse (and when the
\* payload has no choices at all), the expansion fails and the document is
\* unchanged: no node added, no content or choices changed, nothing committed
\* or persisted.
FailedExpansionLeavesDocument ==
  [][ (event'.type \in {"expand:merged", "expand:failed"}
         /\ (event'.result.raised \/ ~event'.result.hasChoices))
      => (event'.type = "expand:failed" /\ DocumentUnchanged /\ saveError' = saveError) ]_vars

\* an expansion failed because the generator raised, after an earlier one merged
ExpansionRaised ==
  /\ event.type = "expand:failed"
  /\ event.result.raised
  /\ persisted # Null

\* the generator's payload holds an entry no choice can be made of: a null
\* entry, or a descriptor without text
Malformed(result) ==
  \E i \in 1..Len(result.choices) :
     result.choices[i].isNull \/ result.choices[i].text = UndefStr

\* C11: an expansion whose result holds a descriptor without text, or an
\* unusable entry after valid ones, is rejected as a whole: the expansion fails,
\* no node is added to the nodes object and the expanded node keeps its content
\* and choices; the document is the one before the call.
MalformedResultRejected ==
  [][ (event'.type \in {"expand:merged", "expand:failed"} /\ Malformed(event'.result))
      => /\ event'.type = "expand:failed"
         /\ heap'[event'.nodes] = heap[event'.nodes]
         /\ story' = story ]_vars

\* C12: saving a draft, creating a node, deleting a node and merging an
\* expansion leave the document the caller held before as it was: the nodes of
\* the Story value held before the step read the same after it.
CommitLeavesPriorDocument ==
  [][ event'.type \in {"save:ok", "add:ok", "delete:ok", "expand:merged"}
      => NodesOf(story, heap') = NodesOf(story, heap) ]_vars

\* C15: a session of play starts on the start node with the history [start];
\* taking a choice moves to its target and appends the target to the history;
\* stepping back after two moves from the start leaves the player on the first
\* move's target with a history of two entries.
SessionHistory ==
  [][ /\ (mode # "playing" /\ mode' = "playing")
         => (currentNodeId' = story'.startNodeId /\ history' = <<story'.startNodeId>>)
      /\ event'.type = "advance"
         => \E idx \in 1..Len(currentNode.choices) :
               /\ currentNodeId' = currentNode.choices[idx].targetNodeId
               /\ history' = Append(history, currentNodeId')
      /\ (event'.type = "stepback" /\ Len(history) = 3)
         => (currentNodeId' = history[2] /\ Len(history') = 2 /\ history'[1] = history[1]) ]_vars

\* two moves from the start, then a step back onto the first move's target
BackOnFirstMove ==
  /\ event.type = "stepback"
  /\ Len(history) = 2
  /\ history[1] = story.startNodeId
  /\ currentNodeId = history[2]
  /\ currentNodeId # story.startNodeId

\* C16: a step back happens only with more than one entry in the history (with
\* one entry or none it changes nothing); it removes the last entry and the
\* player stands on the entry that is last afterwards.
StepBackPops ==
  [][ event'.type = "stepback"
      => /\ Len(history) > 1
         /\ history' = SubSeq(history, 1, Len(history) - 1)
         /\ currentNodeId' = history'[Len(history')] ]_vars

\* a step back emptied the history down to its first entry
BackAtFirstEntry ==
  /\ event.type = "stepback"
  /\ Len(history) = 1
  /\ currentNodeId = history[1]

\* C17: Restart puts the player on the start node and resets the history to
\* [start].
RestartResetsSession ==
  [][ event'.type = "restart"
      => (currentNodeId' = story.startNodeId /\ history' = <<story.startNodeId>>) ]_vars

\* the steps that commit a story through App's handleUpdateStory
Commits == {"save:ok", "add:ok", "delete:ok", "rename", "expand:merged", "import:ok", "forge:ok"}

\* C19: a failed write to the store is not fatal. On every commit the story in
\* memory is the new one whether or not the write succeeds (the new name, the
\* node created, the node deleted); a failed write raises saveError and leaves the
\* stored text as it was; a successful write stores the new story and clears
\* saveError.
FailedWriteKeepsNewStory ==
  [][ event'.type \in Commits
      => /\ \/ saveError' /\ persisted' = persisted
            \/ ~saveError' /\ persisted' = Serialize(story', heap')
         /\ event'.type = "rename" => story'.name = "Renamed"
         /\ event'.type = "add:ok" => event'.minted \subseteq DOMAIN NodesOf(story', heap')
         /\ event'.type = "delete:ok" => event'.id \notin DOMAIN NodesOf(story', heap')
         /\ event'.type = "import:ok" => story'.name = event'.candidate.name ]_vars

\* a rename whose write failed: the story in memory has the new name, nothing
\* was ever stored, and the view goes on
RenameNotStored ==
  /\ event.type = "rename"
  /\ saveError
  /\ story.name = "Renamed"
  /\ persisted = Null
  /\ mode = "editing"

\* C20: no two expansion requests in flight were issued on the same node, also
\* when the player was left and entered again in between.
OneRequestPerNode ==
  \A i, j \in 1..Len(requests) :
     i # j => requests[i].currentNodeId # requests[j].currentNodeId

\* C13: in the editor a node of the document is reported as an orphan exactly
\* when it is not the start node and no choice of the document leads to it:
\* after every commit (save, create, delete) the report matches the committed
\* document, so a committed choice to a node takes it out of the orphans and
\* the removal of the last such choice puts it back.
OrphanReport ==
  [][ (event'.type \in {"save:ok", "add:ok", "delete:ok"} /\ mode' = "editing")
      => \A id \in ListedIds' :
            (id \in Orphans') <=> (id # story'.startNodeId /\ ~Targeted(Nodes', id)) ]_vars

\* C14: in a document with start A and the choices A to B, B to C and A to C,
\* deleting B leaves A with exactly one choice, the one to C, and C is not
\* reported as an orphan.
TriangleDelete ==
  [][ (/\ event'.type = "delete:ok"
       /\ event'.id = <<"node", 2>>
       /\ story.startNodeId = <<"node", 1>>
       /\ PlainNodes(Nodes) = PlainNodes(TriangleNodes))
      => /\ DOMAIN Nodes' = {<<"node", 1>>, <<"node", 3>>}
         /\ Len(Nodes'[<<"node", 1>>].choices) = 1
         /\ Nodes'[<<"node", 1>>].choices[1].targetNodeId = <<"node", 3>>
         /\ mode' = "editing"
         /\ <<"node", 3>> \notin Orphans' ]_vars

\* B was deleted from the three scenes: A and C are left, A with its choice to C
TriangleCut ==
  /\ event = [type |-> "delete:ok", id |-> <<"node", 2>>]
  /\ DOMAIN Nodes = {<<"node", 1>>, <<"node", 3>>}
  /\ Nodes[<<"node", 1>>].title = "A"
  /\ Len(Nodes[<<"node", 1>>].choices) = 1
  /\ Nodes[<<"node", 3>>].title = "C"

\* C18: exporting a document and importing the exported file, in the editor or
\* from the welcome screen, gives a document equal in every field and at every
\* depth to the one exported.
ExportImportRoundTrip ==
  [][ event'.type = "import:ok" => Serialize(story', heap') = downloads ]_vars

\* C21: every expansion request in flight ends, merged or failed, when the
\* generator call returns or raises; a request leaves only by one of the two,
\* and once none is in flight the player's requesting flag is clear, so a new
\* request can be issued.
ExpansionSettles ==
  /\ [][Len(requests') < Len(requests)
         => event'.type \in {"expand:merged", "expand:failed"}]_vars
  /\ [](isGenerating => \E i \in 1..Len(requests) : requests[i].attached)
  /\ (requests # <<>>) ~> (requests = <<>> /\ ~isGenerating)

\* an expansion failed and left the player on the leaf with the flag clear
LeafIdleAgain ==
  /\ event.type = "expand:failed"
  /\ requests = <<>>
  /\ mode = "playing"
  /\ ~isGenerating
  /\ currentNode # Null
  /\ Len(currentNode.choices) = 0

\* C22: a save replaces the stored node of the draft's id as a whole when that
\* id is a key of nodes, and is refused with the document unchanged when it is
\* not: a save never adds a key to nodes.
SaveNeverAddsKey ==
  [][ event'.type = "save:ok"
      => /\ DOMAIN Nodes' = DOMAIN Nodes
         /\ Nodes'[editNode.id] = editNode ]_vars

\* C23: a seed generation that fails, or whose payload does not parse or is
\* empty, ends as a failure with the document as it was; the document is
\* replaced only by a complete generated story (a name, nodes, and a start id
\* that is one of the nodes).
SeedAllOrNothing ==
  [][ /\ event'.type = "forge:failed" => (DocumentUnchanged /\ mode' = mode)
      /\ event'.type = "forge:ok" => Shaped(event'.candidate) ]_vars

\* C24: a committed merge into the document that is still the current one
\* changes only the expanded node's content and choices and adds the minted
\* nodes: the expanded node's id, title, media and isAiGenerated and every other
\* node are as they were when the result arrived, also when the node was edited
\* and saved while the request was in flight; without content in the result the
\* node's content stays as well.
MergeFrame ==
  [][ (event'.type = "expand:merged" /\ story.nodes = event'.nodes
         /\ Has(Nodes, event'.request.currentNodeId))
      => LET key == event'.request.currentNodeId
             was == Nodes[key]
             is  == Nodes'[key]
         IN /\ is.id = was.id /\ is.title = was.title
            /\ is.imageUrl = was.imageUrl /\ is.isAiGenerated = was.isAiGenerated
            /\ event'.result.nodeContent = "" => is.content = was.content
            /\ \A k \in DOMAIN Nodes \ ({key} \cup event'.minted) : Nodes'[k] = Nodes[k] ]_vars

\* C25: changes made in the editor's draft (a choice's text or target, a choice
\* added or removed, title or content) and the selection of another node leave
\* the committed document as it was; only Save Scene brings them in.
DraftLeavesDocument ==
  [][ event'.type \in {"draft", "select"}
      => (story' = story /\ Serialize(story', heap') = Serialize(story, heap)) ]_vars

\* C26: in every state of playback the history is not empty, starts with the
\* start node and ends with the node the player stands on.
HistoryTracksCursor ==
  mode = "playing"
    => /\ Len(history) > 0
       /\ history[1] = story.startNodeId
       /\ currentNodeId = history[Len(history)]

\* C27: from the seed document, in which every choice leads to a node of the
\* document, every sequence of editor operations (create node, add, retarget
\* and remove choice, save, delete node) interleaved with expansion requests
\* and their completions keeps it so: no choice of the document leads to an id
\* that is not a key of nodes.
NoDanglingChoice ==
  story.nodes # NoMap
    => \A k \in DOMAIN Nodes : \A i \in 1..Len(Nodes[k].choices) :
          Has(Nodes, Nodes[k].choices[i].targetNodeId)

\* C28: a choice taken in playback leads to a node of the document, and in
\* every state of playback the player stands on a key of the current
\* document's nodes, so there is always a current node to show.
CursorOnExistingNode ==
  /\ [](mode = "playing" => Has(Nodes, currentNodeId))
  /\ [][event'.type = "advance" => Has(Nodes', currentNodeId')]_vars

\* C29: Add Scene always adds exactly one node, with no choices: the document
\* has one node more than before, and every node it had before is there
\* unchanged, content and choices included.
CreateAddsOneNode ==
  [][ event'.type = "add:ok"
      => /\ Cardinality(DOMAIN Nodes') = Cardinality(DOMAIN Nodes) + 1
         /\ \A k \in DOMAIN Nodes : Has(Nodes', k) /\ Nodes'[k] = Nodes[k]
         /\ \A k \in DOMAIN Nodes' \ DOMAIN Nodes : Nodes'[k].choices = <<>> ]_vars

\* C30: a result is merged into the node the request was issued on, wherever
\* the player stands when it arrives: the merge gives that node the result's
\* choices, leaves every other node that was there (the one under the cursor
\* included) as it was, and does not move the cursor.
MergeIntoRequestedNode ==
  [][ event'.type = "expand:merged"
      => LET key == event'.request.currentNodeId IN
         /\ Has(Nodes', key)
         /\ Len(Nodes'[key].choices) = Len(event'.result.choices)
         /\ \A i \in 1..Len(event'.result.choices) :
               Nodes'[key].choices[i].text = event'.result.choices[i].text
         /\ \A k \in DOMAIN Nodes \ ({key} \cup event'.minted) : Nodes'[k] = Nodes[k]
         /\ currentNodeId' = currentNodeId
         /\ history' = history ]_vars

\* a result arrived after the player had stepped away from the leaf it was
\* requested on, and the leaf has the result's choices
MergedBehindCursor ==
  /\ event.type = "expand:merged"
  /\ event.request.attached
  /\ mode = "playing"
  /\ currentNodeId # event.request.currentNodeId
  /\ Len(event.result.choices) > 0
  /\ Len(Nodes[event.request.currentNodeId].choices) = Len(event.result.choices)

ImportSelectsStart ==
  [][ (event'.type = "import:ok" /\ mode = "editing" /\ Has(Nodes', story'.startNodeId))
      => /\ mode' = "editing"
         /\ selectedNodeId' = story'.startNodeId
         /\ PlainNode(editNode') = PlainNode(Nodes'[story'.startNodeId]) ]_vars

\* C33: whenever the save-error flag is clear and something was stored, what
\* is stored is the in-memory document, its node map and choice objects
\* included: every change to the document goes through the update callback.
PersistedTracksDocument ==
  (~saveError /\ persisted # Null) => persisted = Serialize(story, heap)

\* C34: Add choice appends one choice, with target startNodeId, to the end of
\* the draft's choice list and keeps the choices that were there, in order;
\* and in every document the choice ids within each node's choice list are
\* pairwise distinct, also when two additions read the same timestamp.
AddChoiceAppendsDistinct ==
  /\ [][ (event'.type = "draft" /\ Len(editNode'.choices) > Len(editNode.choices))
         => /\ Len(editNode'.choices) = Len(editNode.choices) + 1
            /\ SubSeq(editNode'.choices, 1, Len(editNode.choices)) = editNode.choices
            /\ editNode'.choices[Len(editNode'.choices)].targetNodeId = story.startNodeId ]_vars
  /\ [](\A k \in DOMAIN Nodes : \A i, j \in 1..Len(Nodes[k].choices) :
           i # j => Nodes[k].choices[i].id # Nodes[k].choices[j].id)

\* the links of the map that are in one group with link i
GroupOf(i) ==
  {j \in 1..Len(graphData) :
     LinkKey(graphData[j].source, graphData[j].target) = LinkKey(graphData[i].source, graphData[i].target)}

\* C35: on the map two choices are in one group if and only if they connect
\* the same unordered pair of node ids, whatever the ids (ids with '-' in them
\* included); within a group the indexes are 0..size-1, each once, and every
\* member records the group's size.
GroupsArePairs ==
  mode = "visualizing"
    => \A i \in 1..Len(graphData) :
         /\ \A j \in 1..Len(graphData) :
               (j \in GroupOf(i))
                 <=> ({graphData[i].source, graphData[i].target}
                        = {graphData[j].source, graphData[j].target})
         /\ graphData[i].totalInGroup = Cardinality(GroupOf(i))
         /\ {graphData[j].indexInGroup : j \in GroupOf(i)} = 0..(Cardinality(GroupOf(i)) - 1)

\* C36: on the map every choice that leads back to its own node is recorded
\* with group size 1 and drawn as a loop, also when a node has two or more
\* such choices.
SelfLoopsAlone ==
  mode = "visualizing"
    => \A i \in 1..Len(graphData) :
         graphData[i].source = graphData[i].target
           => (graphData[i].totalInGroup = 1 /\ PathOf(graphData[i]) = "loop")

\* C37: a node stored with isAiGenerated = true keeps it for as long as it
\* stays in the document, under editor save, a later expansion merge on that
\* node, deletion of other nodes and node creation.
ProvenanceKept ==
  [][ \A r \in 1..Len(heap) : \A k \in DOMAIN heap[r] \cap DOMAIN heap'[r] :
         heap[r][k].isAiGenerated => heap'[r][k].isAiGenerated ]_vars

\* a generated node was itself expanded and is still marked as generated
AiNodeExpanded ==
  /\ event.type = "expand:merged"
  /\ event.replaced # Null
  /\ event.replaced.isAiGenerated
  /\ Has(Nodes, event.request.currentNodeId)
  /\ Nodes[event.request.currentNodeId].isAiGenerated
  /\ Len(Nodes[event.request.currentNodeId].choices) > 0

====
